---- MODULE Spec2Model ----
(***************************************************************************)
(* Model of te_toolbox.binning.statistical: the early-stopping scan        *)
(* optimize_bins over candidate bin counts, the four cost functions and    *)
(* the four rule functions bound to them.                                  *)
(*                                                                         *)
(* Numbers.  Sample values are integers.  Bin edges are exact rationals:   *)
(* an edge array is [den |-> d, num |-> <<a_1, ..., a_m>>] and stands for  *)
(* a_1/d, ..., a_m/d.  Costs are integers (thousandths for the concrete    *)
(* cost functions) together with three IEEE-754 specials PosInf, NegInf    *)
(* and NaN; comparisons follow IEEE-754 (every comparison with NaN is      *)
(* false).  Rounding of binary floating point is not modelled.             *)
(***************************************************************************)
EXTENDS Integers, Sequences, FiniteSets, TLC

\* ---------------------------------------------------------------- bounds
MaxCost == 1          \* finite costs of the generic cost function: 0..MaxCost
MaxPatience == 2      \* patience of a direct optimize_bins call: 1..MaxPatience
MaxChanges == 2       \* a generic cost function changes value at most this often along the scan

\* ------------------------------------------------------- float specials
PosInf == 1000000
NegInf == -1000000
NaN == 2000000

DefaultPatience == 10

\* cost < ref and cost > ref as the interpreter evaluates them on floats
FLt(a, b) == a # NaN /\ b # NaN /\ a < b
FGtOrdered(a, b) == a > b
FGt(a, b) == a # NaN /\ b # NaN /\ a > b

ImprovesOrTies(min, cost, ref) ==
    \/ (min /\ cost # NaN /\ ref # NaN /\ cost <= ref)
    \/ (~min /\ cost # NaN /\ ref # NaN /\ cost >= ref)
\* (minimize and cost < ref) or (not minimize and cost > ref)
Improves(min, cost, ref) == (min /\ FLt(cost, ref)) \/ (~min /\ FGt(cost, ref))

\* ------------------------------------------------------- candidate range
ISqrt(x) == CHOOSE r \in 0..x : r * r <= x /\ (r + 1) * (r + 1) > x

MaxOf(a, b) == IF a >= b THEN a ELSE b

NMinNoFloor(n) == ISqrt(n) \div 10
\* max(2, int(np.sqrt(n) * 0.1))
NMin(n) == MaxOf(2, ISqrt(n) \div 10)

NMaxInclusive(n) == ISqrt(100 * n) + 1
\* int(np.sqrt(n) * 10); the loop is range(n_min, n_max)
NMax(n) == ISqrt(100 * n)

\* ------------------------------------------------------- numpy helpers
SeqMin(s) == CHOOSE x \in {s[i] : i \in DOMAIN s} : \A j \in DOMAIN s : x <= s[j]
SeqMax(s) == CHOOSE x \in {s[i] : i \in DOMAIN s} : \A j \in DOMAIN s : x >= s[j]

LinspaceShort(lo, hi, num) ==
    [den |-> num - 1, num |-> [i \in 1..(num - 1) |-> lo * (num - 1) + (i - 1) * (hi - lo)]]
\* np.linspace(lo, hi, num): num points lo + i*(hi-lo)/(num-1), i = 0..num-1
Linspace(lo, hi, num) ==
    [den |-> num - 1, num |-> [i \in 1..num |-> lo * (num - 1) + (i - 1) * (hi - lo)]]

\* np.histogram(data, bins) with an edge array: every bin is half open but
\* the last, which includes its right edge
Histogram(d, b) ==
    LET m == Len(b.num) - 1
        below(e) == Cardinality({j \in DOMAIN d : d[j] * b.den < e})
        upto(e) == Cardinality({j \in DOMAIN d : d[j] * b.den <= e})
        cum(i) == IF i = m + 1 THEN upto(b.num[m + 1]) ELSE below(b.num[i])
    IN  [i \in 1..m |-> cum(i + 1) - cum(i)]

\* ------------------------------------------------------- float arithmetic
IsFinite(a) == a \notin {PosInf, NegInf, NaN}

\* a + b
XAdd(a, b) ==
    IF a = NaN \/ b = NaN THEN NaN
    ELSE IF a = PosInf THEN (IF b = NegInf THEN NaN ELSE PosInf)
    ELSE IF a = NegInf THEN (IF b = PosInf THEN NaN ELSE NegInf)
    ELSE IF ~IsFinite(b) THEN b
    ELSE a + b

\* -a
XNeg(a) == IF a = NaN THEN NaN ELSE -a

\* n * a for an integer count n >= 0
XScale(n, a) ==
    IF a = NaN THEN NaN
    ELSE IF IsFinite(a) THEN n * a
    ELSE IF n = 0 THEN NaN
    ELSE a

\* 1000 * ln(i), rounded, for i = 1..64
LnTable ==
    <<
         0,  693, 1099, 1386, 1609, 1792, 1946, 2079,
      2197, 2303, 2398, 2485, 2565, 2639, 2708, 2773,
      2833, 2890, 2944, 2996, 3045, 3091, 3135, 3178,
      3219, 3258, 3296, 3332, 3367, 3401, 3434, 3466,
      3497, 3526, 3555, 3584, 3611, 3638, 3664, 3689,
      3714, 3738, 3761, 3784, 3807, 3829, 3850, 3871,
      3892, 3912, 3932, 3951, 3970, 3989, 4007, 4025,
      4043, 4060, 4078, 4094, 4111, 4127, 4143, 4159
    >>

\* np.log(p/q) in thousandths for integers p >= 0, q > 0: log(0) is -inf
XLn(p, q) == IF p = 0 THEN NegInf ELSE LnTable[p] - LnTable[q]

\* num/den in thousandths; x/0 is +-inf or nan
XDiv(num, den) ==
    IF den = 0
    THEN (IF num > 0 THEN PosInf ELSE IF num < 0 THEN NegInf ELSE NaN)
    ELSE (1000 * num) \div den

RECURSIVE SumSeq(_)
SumSeq(s) == IF s = <<>> THEN 0 ELSE Head(s) + SumSeq(Tail(s))

\* the outcome of a call that raises TypeError
TypeError == 3000000

\* ---------------------------------------------------------- cost functions
\* numerator of the bin width bins[1] - bins[0]; the width is BinWidthNum/bins.den
BinWidthNum(b) == b.num[2] - b.num[1]

\* math.lgamma takes a scalar: applied to the array hist + 0.5 it raises
\* TypeError unless the array has one element, and then the terms cancel
KnuthCost(h, b) == IF Len(h) >= 2 THEN TypeError ELSE 0

\* (2 * mean - var) / (h * n) ** 2
ShimazakiCost(h, b) ==
    LET n == SumSeq(h)
        m == Len(h)
        sq == SumSeq([i \in 1..m |-> h[i] * h[i]])
    IN  XDiv((2 * n * m - m * sq + n * n) * b.den * b.den,
             m * m * BinWidthNum(b) * BinWidthNum(b) * n * n)

\* sum(nonzero_hist * log(nonzero_hist))
SumNLogNAllBins(h) == SumSeq([i \in 1..Len(h) |-> XScale(h[i], XLn(h[i], 1))])
SumNLogN(h) == SumSeq([i \in 1..Len(h) |-> IF h[i] > 0 THEN h[i] * XLn(h[i], 1) ELSE 0])

\* m + n * log(n) + n * log(h) - sum(nonzero_hist * log(nonzero_hist))
AicCost(h, b) ==
    LET n == SumSeq(h)
        m == Len(h)
    IN  XAdd(XAdd(XAdd(1000 * m, XScale(n, XLn(n, 1))),
                  XScale(n, XLn(BinWidthNum(b), b.den))),
             XNeg(SumNLogN(h)))

\* log(n) / 2 * m + n * log(n) + n * log(h) - sum(nonzero_hist * log(nonzero_hist))
BicCost(h, b) ==
    LET n == SumSeq(h)
        m == Len(h)
        half == IF IsFinite(XLn(n, 1)) THEN XLn(n, 1) \div 2 ELSE XLn(n, 1)
    IN  XAdd(XAdd(XAdd(XScale(m, half), XScale(n, XLn(n, 1))),
                  XScale(n, XLn(BinWidthNum(b), b.den))),
             XNeg(SumNLogN(h)))

CostCall(cf, h, b) ==
    CASE cf = "knuth_cost" -> KnuthCost(h, b)
      [] cf = "shimazaki_cost" -> ShimazakiCost(h, b)
      [] cf = "aic_cost" -> AicCost(h, b)
      [] cf = "bic_cost" -> BicCost(h, b)

\* ---------------------------------------------------------- rule functions
Rules == {"knuth_bins", "shimazaki_bins", "aic_bins", "bic_bins"}

BindingAllMinimize(rule) ==
    CASE rule = "knuth_bins" ->
            [cost_function |-> "knuth_cost", minimize |-> TRUE, patience |-> DefaultPatience]
      [] rule = "shimazaki_bins" ->
            [cost_function |-> "shimazaki_cost", minimize |-> TRUE, patience |-> DefaultPatience]
      [] rule = "aic_bins" ->
            [cost_function |-> "aic_cost", minimize |-> TRUE, patience |-> DefaultPatience]
      [] rule = "bic_bins" ->
            [cost_function |-> "bic_cost", minimize |-> TRUE, patience |-> DefaultPatience]
\* the arguments each rule function passes to optimize_bins
Binding(rule) ==
    CASE rule = "knuth_bins" ->
            [cost_function |-> "knuth_cost", minimize |-> FALSE, patience |-> DefaultPatience]
      [] rule = "shimazaki_bins" ->
            [cost_function |-> "shimazaki_cost", minimize |-> TRUE, patience |-> DefaultPatience]
      [] rule = "aic_bins" ->
            [cost_function |-> "aic_cost", minimize |-> TRUE, patience |-> DefaultPatience]
      [] rule = "bic_bins" ->
            [cost_function |-> "bic_cost", minimize |-> TRUE, patience |-> DefaultPatience]

\* ------------------------------------------------------------- state
VARIABLES
    entry,          \* the function that was called
    data,           \* the sample
    cost_function,  \* the cost function passed to optimize_bins
    minimize,
    patience,
    n_min, n_max,
    best_cost, last_cost, best_n, worse_count,
    n_bins,         \* the candidate the loop takes next (the last one taken, after a break)
    bins, hist, cost,
    costs,          \* history: the cost of every candidate evaluated so far
    warned,         \* logger.warning was called
    result,         \* the returned edges
    pc,
    earlier         \* how the call before this one ended, for a caller that calls twice

vars == <<entry, data, cost_function, minimize, patience, n_min, n_max,
          best_cost, last_cost, best_n, worse_count, n_bins, bins, hist, cost,
          costs, warned, result, pc, earlier>>

NoEdges == [den |-> 0, num |-> <<>>]

NoCall == [pc |-> "none", result |-> NoEdges, hist |-> <<>>, bins |-> NoEdges, cost |-> 0]

\* what the caller sees and keeps of a finished call
Snapshot == [pc |-> pc, result |-> result, hist |-> hist, bins |-> bins, cost |-> cost]

\* samples a direct call of optimize_bins is made with
Samples == {<<0, 2>>, <<1, 1>>, <<2, 0, 1>>}

\* values a generic cost function returns
CostVals == (0..MaxCost) \cup {PosInf, NegInf, NaN}

\* optimize_bins lines 36-43
Enter(e, d, cf, min, pat) ==
    /\ entry = e
    /\ data = d
    /\ cost_function = cf
    /\ minimize = min
    /\ patience = pat
    /\ n_min = NMin(Len(d))
    /\ n_max = NMax(Len(d))
    /\ best_cost = (IF min THEN PosInf ELSE NegInf)
    /\ last_cost = (IF min THEN PosInf ELSE NegInf)
    /\ best_n = NMin(Len(d))
    /\ worse_count = 0
    /\ n_bins = NMin(Len(d))
    /\ bins = NoEdges
    /\ hist = <<>>
    /\ cost = 0
    /\ costs = <<>>
    /\ warned = FALSE
    /\ result = NoEdges
    /\ pc = "loop"
    /\ earlier = NoCall

Init ==
    \E d \in Samples, min \in BOOLEAN, pat \in 1..MaxPatience :
        Enter("optimize_bins", d, "any", min, pat)

\* number of places where the recorded cost sequence changes value
Changes(cs) == Cardinality({k \in DOMAIN cs : (k - 1) \in DOMAIN cs /\ cs[k] # cs[k - 1]})

\* the values cost_function(hist, bins) may return for candidate k
CostOutcomes(k, h, b) ==
    IF cost_function = "any"
    THEN {c \in CostVals :
            \/ (k - 1) \notin DOMAIN costs
            \/ c = costs[k - 1]
            \/ Changes(costs) < MaxChanges}
    ELSE {CostCall(cost_function, h, b)}

JudgeNoLocalReset(min, pat, st, k, c) ==
    IF Improves(min, c, st.best_cost)
    THEN [best_cost |-> c, best_n |-> k, worse_count |-> 0,
          last_cost |-> st.last_cost, brk |-> FALSE]
    ELSE [best_cost |-> st.best_cost, best_n |-> st.best_n,
          worse_count |-> st.worse_count + 1,
          last_cost |-> st.last_cost, brk |-> (st.worse_count + 1 >= pat)]
JudgeTracksLast(min, pat, st, k, c) ==
    IF Improves(min, c, st.best_cost)
    THEN [best_cost |-> c, best_n |-> k, worse_count |-> 0,
          last_cost |-> c, brk |-> FALSE]
    ELSE IF Improves(min, c, st.last_cost)
    THEN [best_cost |-> st.best_cost, best_n |-> st.best_n, worse_count |-> 0,
          last_cost |-> c, brk |-> FALSE]
    ELSE [best_cost |-> st.best_cost, best_n |-> st.best_n,
          worse_count |-> st.worse_count + 1,
          last_cost |-> c, brk |-> (st.worse_count + 1 >= pat)]
JudgeLocalUpdatesBest(min, pat, st, k, c) ==
    IF Improves(min, c, st.best_cost)
    THEN [best_cost |-> c, best_n |-> k, worse_count |-> 0,
          last_cost |-> st.last_cost, brk |-> FALSE]
    ELSE IF Improves(min, c, st.last_cost)
    THEN [best_cost |-> st.best_cost, best_n |-> k, worse_count |-> 0,
          last_cost |-> st.last_cost, brk |-> FALSE]
    ELSE [best_cost |-> st.best_cost, best_n |-> st.best_n,
          worse_count |-> st.worse_count + 1,
          last_cost |-> st.last_cost, brk |-> (st.worse_count + 1 >= pat)]
JudgeStaleBestN(min, pat, st, k, c) ==
    IF Improves(min, c, st.best_cost)
    THEN [best_cost |-> c, best_n |-> st.best_n, worse_count |-> 0,
          last_cost |-> st.last_cost, brk |-> FALSE]
    ELSE IF Improves(min, c, st.last_cost)
    THEN [best_cost |-> st.best_cost, best_n |-> st.best_n, worse_count |-> 0,
          last_cost |-> st.last_cost, brk |-> FALSE]
    ELSE [best_cost |-> st.best_cost, best_n |-> st.best_n,
          worse_count |-> st.worse_count + 1,
          last_cost |-> st.last_cost, brk |-> (st.worse_count + 1 >= pat)]
\* lines 50-60: the new search state after a candidate k with the given cost;
\* brk says that the loop breaks
Judge(min, pat, st, k, c) ==
    IF Improves(min, c, st.best_cost)
    THEN [best_cost |-> c, best_n |-> k, worse_count |-> 0,
          last_cost |-> st.last_cost, brk |-> FALSE]
    ELSE IF Improves(min, c, st.last_cost)
    THEN [best_cost |-> st.best_cost, best_n |-> st.best_n, worse_count |-> 0,
          last_cost |-> st.last_cost, brk |-> FALSE]
    ELSE [best_cost |-> st.best_cost, best_n |-> st.best_n,
          worse_count |-> st.worse_count + 1,
          last_cost |-> st.last_cost, brk |-> (st.worse_count + 1 >= pat)]

AdvanceStuck(brk, k) ==
    IF brk THEN [pc |-> "return", n_bins |-> k] ELSE [pc |-> "loop", n_bins |-> k]
AdvanceElseAfterBreak(brk, k) ==
    IF brk THEN [pc |-> "loop", n_bins |-> n_max] ELSE [pc |-> "loop", n_bins |-> k + 1]
\* where control goes after the body for candidate k: break leaves the loop
\* past its else branch, otherwise the range yields the next candidate
Advance(brk, k) ==
    IF brk THEN [pc |-> "return", n_bins |-> k] ELSE [pc |-> "loop", n_bins |-> k + 1]

SearchState ==
    [best_cost |-> best_cost, best_n |-> best_n, worse_count |-> worse_count,
     last_cost |-> last_cost, brk |-> FALSE]

\* one pass of the loop body, lines 45-60, for the candidate n_bins
Iterate ==
    /\ pc = "loop"
    /\ n_bins < n_max
    /\ LET b == Linspace(SeqMin(data), SeqMax(data), n_bins + 1)
           h == Histogram(data, b)
       IN  \E c \in CostOutcomes(n_bins, h, b) :
             LET st == Judge(minimize, patience, SearchState, n_bins, c)
             IN  /\ bins' = b
                 /\ hist' = h
                 /\ IF c = TypeError
                    THEN \* the exception leaves optimize_bins and its caller
                         /\ pc' = "raised"
                         /\ UNCHANGED <<cost, costs, best_cost, best_n, worse_count,
                                        last_cost, n_bins>>
                    ELSE /\ cost' = c
                         /\ costs' = [k \in n_min..n_bins |->
                                        IF k = n_bins THEN c ELSE costs[k]]
                         /\ best_cost' = st.best_cost
                         /\ best_n' = st.best_n
                         /\ worse_count' = st.worse_count
                         /\ last_cost' = st.last_cost
                         /\ n_bins' = Advance(st.brk, n_bins).n_bins
                         /\ pc' = Advance(st.brk, n_bins).pc
    /\ UNCHANGED <<entry, data, cost_function, minimize, patience, n_min, n_max,
                   warned, result, earlier>>

\* lines 61-64: the else branch of the for loop, taken when range is exhausted
LoopElse ==
    /\ pc = "loop"
    /\ n_bins >= n_max
    /\ warned' = TRUE
    /\ pc' = "return"
    /\ UNCHANGED <<entry, data, cost_function, minimize, patience, n_min, n_max,
                   best_cost, last_cost, best_n, worse_count, n_bins, bins, hist,
                   cost, costs, result, earlier>>

\* line 66
Return ==
    /\ pc = "return"
    /\ result' = Linspace(SeqMin(data), SeqMax(data), best_n + 1)
    /\ pc' = "done"
    /\ UNCHANGED <<entry, data, cost_function, minimize, patience, n_min, n_max,
                   best_cost, last_cost, best_n, worse_count, n_bins, bins, hist,
                   cost, costs, warned, earlier>>

Next == Iterate \/ LoopElse \/ Return

Spec == Init /\ [][Next]_vars

\* samples the rule functions are called with; the last is [5.0] * 50
RuleSamples ==
    {<<0, 2>>, <<1, 1>>, <<2, 0, 1>>, <<0, 1, 1, 3>>, <<0, 3, 1, 1, 2>>,
     [i \in 1..50 |-> 5]}

\* lines 164-225: a call of one of the rule functions
InitRules ==
    \E rule \in Rules, d \in RuleSamples :
        Enter(rule, d, Binding(rule).cost_function, Binding(rule).minimize,
              Binding(rule).patience)

SpecRules == InitRules /\ [][Next]_vars

StaleBestCost(min) == best_cost
\* line 40: best_cost is a local, initialised by every call
FreshBestCost(min) == IF min THEN PosInf ELSE NegInf

\* a caller calls the same rule function again with the same sample: lines
\* 36-43 run again on fresh locals
CallAgain ==
    /\ entry \in Rules
    /\ pc \in {"done", "raised"}
    /\ earlier = NoCall
    /\ earlier' = Snapshot
    /\ cost_function' = Binding(entry).cost_function
    /\ minimize' = Binding(entry).minimize
    /\ patience' = Binding(entry).patience
    /\ n_min' = NMin(Len(data))
    /\ n_max' = NMax(Len(data))
    /\ best_cost' = FreshBestCost(Binding(entry).minimize)
    /\ last_cost' = (IF Binding(entry).minimize THEN PosInf ELSE NegInf)
    /\ best_n' = NMin(Len(data))
    /\ worse_count' = 0
    /\ n_bins' = NMin(Len(data))
    /\ bins' = NoEdges
    /\ hist' = <<>>
    /\ cost' = 0
    /\ costs' = <<>>
    /\ warned' = FALSE
    /\ result' = NoEdges
    /\ pc' = "loop"
    /\ UNCHANGED <<entry, data>>

NextTwice == Iterate \/ LoopElse \/ Return \/ CallAgain

SpecTwice == InitRules /\ [][NextTwice]_vars

\* ------------------------------------------- direct calls of a cost function
CostFunctions == {"knuth_cost", "shimazaki_cost", "aic_cost", "bic_cost"}

\* histograms and the ends of the edges the cost functions are called with
CostHists ==
    {<<0, 0>>, <<0, 0, 0, 0>>, <<10, 10, 10, 10>>, <<40, 0, 0, 0>>, <<1, 2>>, <<3, 0, 1>>}

CostSpans == {<<0, 4>>, <<0, 1>>, <<1, 3>>}

\* a call cost_function(hist, bins) is about to run
InitCost ==
    \E cf \in CostFunctions, h \in CostHists, sp \in CostSpans :
        /\ entry = cf
        /\ cost_function = cf
        /\ hist = h
        /\ bins = Linspace(sp[1], sp[2], Len(h) + 1)
        /\ pc = "cost"
        /\ data = <<>>
        /\ minimize = (cf # "knuth_cost")
        /\ patience = DefaultPatience
        /\ n_min = 0
        /\ n_max = 0
        /\ best_cost = 0
        /\ last_cost = 0
        /\ best_n = 0
        /\ worse_count = 0
        /\ n_bins = 0
        /\ cost = 0
        /\ costs = <<>>
        /\ warned = FALSE
        /\ result = NoEdges
        /\ earlier = NoCall

\* the body of the cost function: it returns a float or raises
CostReturn ==
    /\ pc = "cost"
    /\ LET c == CostCall(cost_function, hist, bins)
       IN  IF c = TypeError
           THEN pc' = "raised" /\ UNCHANGED cost
           ELSE pc' = "done" /\ cost' = c
    /\ UNCHANGED <<entry, data, cost_function, minimize, patience, n_min, n_max,
                   best_cost, last_cost, best_n, worse_count, n_bins, bins, hist,
                   costs, warned, result, earlier>>

\* the caller calls the same cost function on another histogram over the
\* same edges
CostAgain ==
    /\ entry \in CostFunctions
    /\ pc \in {"done", "raised"}
    /\ earlier = NoCall
    /\ earlier' = Snapshot
    /\ \E h \in CostHists : Len(h) = Len(hist) /\ h # hist /\ hist' = h
    /\ pc' = "cost"
    /\ UNCHANGED <<entry, data, cost_function, minimize, patience, n_min, n_max,
                   best_cost, last_cost, best_n, worse_count, n_bins, bins,
                   cost, costs, warned, result>>

NextCost == CostReturn \/ CostAgain

SpecCost == InitCost /\ [][NextCost]_vars

TypeOK ==
    /\ pc \in {"loop", "return", "done", "raised", "cost"}
    /\ n_bins \in n_min..n_max
    /\ best_n \in n_min..n_max
    /\ worse_count \in 0..patience

\* ------------------------------------------------------------ claims
Evaluated == DOMAIN costs

InitialBest == IF minimize THEN PosInf ELSE NegInf

\* number of bins of the returned edges
ReturnedBins == Len(result.num) - 1

\* the best cost among the candidates before k, by strict improvement
RECURSIVE BestBefore(_)
BestBefore(k) ==
    IF k <= n_min THEN InitialBest
    ELSE LET b == BestBefore(k - 1)
         IN  IF Improves(minimize, costs[k - 1], b) THEN costs[k - 1] ELSE b

PrevCost(k) == IF k <= n_min THEN InitialBest ELSE costs[k - 1]

NotImproving(k) ==
    /\ ~Improves(minimize, costs[k], BestBefore(k))
    /\ ~Improves(minimize, costs[k], PrevCost(k))

\* C1: once patience consecutive candidates have each improved neither on the
\* best cost nor on the cost of the candidate before them, no candidate with
\* a larger bin count is evaluated.
C1_StopsAfterPatienceWorse ==
    \A k \in Evaluated :
        (/\ k - patience + 1 >= n_min
         /\ \A j \in (k - patience + 1)..k : NotImproving(j))
        => \A j \in Evaluated : j <= k

\* C2: the returned edges are those of an evaluated bin count that no
\* evaluated candidate strictly beats, whether the scan broke or ran out.
C2_ReturnsUnbeaten ==
    pc = "done" =>
        /\ ReturnedBins \in Evaluated
        /\ \A k \in Evaluated : ~Improves(minimize, costs[k], costs[ReturnedBins])

C2_Witness ==
    /\ pc = "done"
    /\ warned
    /\ ReturnedBins > n_min
    /\ \E k \in Evaluated : Improves(minimize, costs[ReturnedBins], costs[k])

\* C3: the returned number of bins lies in [n_min, n_max) with
\* n_min = max(2, floor(sqrt(n)/10)) and n_max = floor(10*sqrt(n)).
C3_BinCountInRange ==
    pc = "done" =>
        \E lo \in 0..Len(data), hi \in 0..(10 * Len(data)) :
            /\ (10 * lo) * (10 * lo) <= Len(data)
            /\ (10 * (lo + 1)) * (10 * (lo + 1)) > Len(data)
            /\ hi * hi <= 100 * Len(data)
            /\ (hi + 1) * (hi + 1) > 100 * Len(data)
            /\ MaxOf(2, lo) <= ReturnedBins
            /\ ReturnedBins < hi

C3_Witness ==
    /\ pc = "done"
    /\ Len(data) = 3
    /\ ReturnedBins = 16

\* C4: the warning is emitted exactly when every candidate of the range was
\* evaluated and the loop did not break; edges are returned either way.
C4_WarningIffExhausted ==
    /\ pc \in {"return", "done"} =>
          (warned <=> (Evaluated = n_min..(n_max - 1) /\ worse_count < patience))
    /\ pc = "done" => Len(result.num) >= 3

C4_Witness ==
    /\ pc = "done"
    /\ ~warned
    /\ Evaluated = n_min..(n_max - 1)
    /\ Len(result.num) >= 3

FEq(a, b) == a # NaN /\ b # NaN /\ a = b

\* C5: a candidate whose cost equals best_cost leaves best_n alone, and the
\* returned bin count is the smallest evaluated one with its cost.
C5_FirstSeenWinsTies ==
    /\ [][(costs' # costs /\ FEq(cost', best_cost)) => best_n' = best_n]_vars
    /\ [](pc = "done" =>
            \A k \in Evaluated : FEq(costs[k], costs[ReturnedBins]) => ReturnedBins <= k)

C5_Witness ==
    /\ pc = "done"
    /\ ReturnedBins > n_min
    /\ \E k \in Evaluated : k > ReturnedBins /\ FEq(costs[k], costs[ReturnedBins])

\* C6: a NaN cost leaves best_cost and best_n alone and adds one to
\* worse_count; the loop breaks once that reaches patience.
C6_NaNCountsAsWorse ==
    [][(costs' # costs /\ cost' = NaN) =>
          /\ best_cost' = best_cost
          /\ best_n' = best_n
          /\ worse_count' = worse_count + 1
          /\ (worse_count' >= patience <=> pc' = "return")]_vars

C6_Witness ==
    /\ pc = "return"
    /\ ~warned
    /\ patience >= 2
    /\ ~minimize
    /\ \A j \in (n_bins - patience + 1)..n_bins : j \in Evaluated /\ costs[j] = NaN
    /\ best_n < n_bins - patience + 1
    /\ best_n > n_min

\* C7: when minimizing, the cost of the returned bin count is not greater
\* than the cost of the first candidate.
C7_NotWorseThanFirst ==
    (pc = "done" /\ minimize) => ~FGt(costs[ReturnedBins], costs[n_min])

C7_Witness ==
    /\ pc = "done"
    /\ minimize
    /\ ReturnedBins > n_min
    /\ FLt(costs[ReturnedBins], costs[n_min])

\* edges e are k+1 strictly increasing equally spaced values from min(data)
\* to max(data)
WellFormed(e, k) ==
    /\ e.den > 0
    /\ Len(e.num) = k + 1
    /\ e.num[1] = SeqMin(data) * e.den
    /\ e.num[k + 1] = SeqMax(data) * e.den
    /\ \A i \in 1..k : e.num[i] < e.num[i + 1]
    /\ \A i \in 1..k : (e.num[i + 1] - e.num[i]) * k = (SeqMax(data) - SeqMin(data)) * e.den

LastEvaluated == CHOOSE k \in Evaluated : \A j \in Evaluated : j <= k

C9_IdenticalSampleFails ==
    (entry \in Rules /\ SeqMin(data) = SeqMax(data)) => pc # "done"

\* C10: each rule function runs optimize_bins on its sample with its own cost
\* function, knuth maximizing and the others minimizing, and patience 10.
C10_RulesBindOptimizer ==
    entry \in Rules =>
        /\ entry = "knuth_bins" => (cost_function = "knuth_cost" /\ ~minimize)
        /\ entry = "shimazaki_bins" => (cost_function = "shimazaki_cost" /\ minimize)
        /\ entry = "aic_bins" => (cost_function = "aic_cost" /\ minimize)
        /\ entry = "bic_bins" => (cost_function = "bic_cost" /\ minimize)
        /\ patience = 10
        /\ n_min = NMin(Len(data))
        /\ n_max = NMax(Len(data))
        /\ pc = "done" => result = Linspace(SeqMin(data), SeqMax(data), best_n + 1)

C10_Witness ==
    /\ entry = "bic_bins"
    /\ pc = "done"
    /\ best_n > n_min
    /\ ReturnedBins = best_n

\* C14: when a candidate after the first is about to be compared, last_cost
\* is the cost of the candidate before it.
C14_LastCostFollowsScan ==
    (pc = "loop" /\ n_bins > n_min /\ n_bins < n_max) => last_cost = costs[n_bins - 1]

\* C15: a candidate that does not improve on best_cost but improves on the
\* cost of the candidate before it resets worse_count to 0 and leaves
\* best_cost and best_n alone.
C15_LocalImprovementResets ==
    [][(/\ costs' # costs
        /\ ~Improves(minimize, cost', best_cost)
        /\ Improves(minimize, cost', PrevCost(n_bins)))
       => (worse_count' = 0 /\ best_cost' = best_cost /\ best_n' = best_n)]_vars

C15_Witness ==
    /\ pc = "loop"
    /\ worse_count = 0
    /\ patience >= 2
    /\ Evaluated # {}
    /\ LastEvaluated >= n_min + 2
    /\ ~Improves(minimize, costs[LastEvaluated], BestBefore(LastEvaluated))
    /\ Improves(minimize, costs[LastEvaluated], costs[LastEvaluated - 1])
    /\ NotImproving(LastEvaluated - 1)
    /\ best_n < LastEvaluated - 1

\* the infinity that never improves in the direction of the search
WrongInf == IF minimize THEN PosInf ELSE NegInf

StepsLeft ==
    CASE pc = "loop" -> 3 * (n_max - n_bins) + 2
      [] pc = "return" -> 1
      [] OTHER -> 0

\* one of the three steps of the call can be taken
CanStep ==
    \/ pc = "loop" /\ n_bins < n_max /\ CostOutcomes(n_bins, hist, bins) # {}
    \/ pc = "loop" /\ n_bins >= n_max
    \/ pc = "return"

\* C16: the scan takes the bin counts n_min, n_min + 1, ... one after the
\* other, each once, at most n_max - n_min of them, and the call returns:
\* every step brings it nearer to the return and it is never stuck before.
C16_ScanTerminates ==
    /\ [][costs' # costs =>
            /\ n_bins \notin Evaluated
            /\ DOMAIN costs' = Evaluated \cup {n_bins}
            /\ \A k \in Evaluated : k < n_bins /\ costs'[k] = costs[k]]_vars
    /\ [][StepsLeft' < StepsLeft]_vars
    /\ [](/\ Evaluated = n_min..(n_min + Cardinality(Evaluated) - 1)
          /\ Cardinality(Evaluated) <= n_max - n_min
          /\ StepsLeft >= 0
          /\ (pc # "done" => CanStep))

C16_Witness ==
    /\ pc = "done"
    /\ Cardinality(Evaluated) = n_max - n_min
    /\ Len(data) = 3

AllZero(h) == \A i \in DOMAIN h : h[i] = 0

\* C11: a cost function called with a histogram of zeros returns a value; it
\* does not raise.
C11_ZeroHistogramReturns ==
    (entry \in CostFunctions /\ AllZero(hist)) => pc # "raised"

Uniform40 == <<10, 10, 10, 10>>
Concentrated40 == <<40, 0, 0, 0>>

\* the uniform histogram was costed first and the concentrated one after it,
\* by aic_cost or bic_cost over the same edges
BothCosted ==
    /\ cost_function \in {"aic_cost", "bic_cost"}
    /\ pc = "done"
    /\ hist = Concentrated40
    /\ earlier.pc = "done"
    /\ earlier.hist = Uniform40
    /\ earlier.bins = bins

\* C12 as stated: aic_cost and bic_cost are strictly higher for the
\* concentrated histogram than for the uniform one.
C12_ConcentratedCostsMore == BothCosted => FGt(cost, earlier.cost)

\* C12 amended: aic_cost and bic_cost are strictly lower for the concentrated
\* histogram than for the uniform one, by 40*ln(40) - 40*ln(10); the empty
\* bins add nothing to the sum and still count in m = 4.
C12_ConcentratedCostsLess ==
    BothCosted =>
        /\ FLt(cost, earlier.cost)
        /\ earlier.cost - cost = 40 * (LnTable[40] - LnTable[10])
        /\ cost_function = "aic_cost" =>
              cost = 1000 * 4 + 40 * XLn(BinWidthNum(bins), bins.den)

C12_Witness == BothCosted /\ cost_function = "bic_cost" /\ IsFinite(cost)

====
